---- MODULE Spec2Model ----
(***************************************************************************)
(* A model of src-tauri/src/lib.rs: the WebP -> MP4 conversion job         *)
(* (convert_webp_to_mp4_sync), its fallback pipeline                       *)
(* (fallback_convert_with_webpmux), the webpmux report parser              *)
(* (parse_webpmux_info and its helpers), the concat list builder           *)
(* (build_concat_list), and on their own ensure_unique_path,               *)
(* ConversionSettings::from_options, is_animated_webp and create_temp_dir. *)
(*                                                                         *)
(* Text is modelled as it is in the program: a line is a string, and the   *)
(* operators below read it character by character.  A report (the &str     *)
(* given to parse_webpmux_info) is the sequence of its lines, that is      *)
(* what output.lines() iterates over.                                      *)
(***************************************************************************)
EXTENDS Integers, Sequences, FiniteSets, TLC

VARIABLES
    arg,          \* the argument of the pure function under check
    ret,          \* its return value, NotCalled before the call
    index,        \* the loop counter of ensure_unique_path, 0 outside the loop
    carry,        \* the carry of is_animated_webp, empty outside its loop
    pc,           \* where convert_webp_to_mp4_sync stands
    webp,         \* the input file: its canvas and its frames
    options,      \* the job's ConvertOptions
    settings,     \* ConversionSettings::from_options(options)
    events,       \* the progress events emitted so far, in order
    steps,        \* the external steps started so far, in order
    scratch,      \* the scratch directory on disk: None, or its files
    parsed,       \* (canvas_w, canvas_h, frames) of parse_webpmux_info
    canvas,       \* the working canvas of the fallback pipeline
    temp_dir,     \* the path create_temp_dir returned, None before it
    frame_paths,  \* the (composed file, duration_ms) pairs pushed so far
    err,          \* the error of run_ffmpeg_conversion
    fallback_err, \* the error of fallback_convert_with_webpmux
    log_writes,   \* the write_debug_log calls made so far
    final_cmd,    \* the final encoder invocation of the fallback pipeline
    result,       \* what the job returned, NotCalled before it returns
    counter,      \* the static COUNTER of create_temp_dir
    previous      \* the final encoder invocation of the job's previous run

fnVars == <<arg, ret, index, carry>>
jobVars == <<pc, webp, options, settings, events, steps, scratch, parsed,
             canvas, temp_dir, frame_paths, err, fallback_err, log_writes, final_cmd,
             result>>
procVars == <<counter, previous>>

vars == <<fnVars, jobVars, procVars>>

NotCalled == [called |-> FALSE]

None == [some |-> FALSE]
Some(v) == [some |-> TRUE, v |-> v]

Min(a, b) == IF a < b THEN a ELSE b

\* The sequences over S of length at most n.
RECURSIVE SeqsUpTo(_, _)
SeqsUpTo(S, n) ==
    IF n = 0 THEN { <<>> }
    ELSE LET shorter == SeqsUpTo(S, n - 1)
         IN  shorter \cup { Append(s, x) : s \in shorter, x \in S }

----------------------------------------------------------------------------
(* Characters and the str methods the parser uses.                         *)

At(s, i) == SubSeq(s, i, i)

UpperChars == "ABCDEFGHIJKLMNOPQRSTUVWXYZ"
LowerChars == "abcdefghijklmnopqrstuvwxyz"
DigitChars == "0123456789"

DigitSet == { At(DigitChars, i) : i \in 1..10 }
DigitMap == [c \in DigitSet |-> (CHOOSE i \in 1..10 : At(DigitChars, i) = c) - 1]
UpperSet == { At(UpperChars, i) : i \in 1..26 }
LowerMap ==
    [c \in UpperSet |-> At(LowerChars, CHOOSE i \in 1..26 : At(UpperChars, i) = c)]

is_ascii_digit(c) == c \in DigitSet

DigitVal(c) == DigitMap[c]

is_whitespace(c) == c = " "

to_lower_char(c) == IF c \in UpperSet THEN LowerMap[c] ELSE c

RECURSIVE LowerFrom(_, _)
LowerFrom(s, i) ==
    IF i > Len(s) THEN "" ELSE to_lower_char(At(s, i)) \o LowerFrom(s, i + 1)

to_lowercase(s) == LowerFrom(s, 1)

starts_with(s, p) == Len(s) >= Len(p) /\ SubSeq(s, 1, Len(p)) = p

ends_with(s, p) ==
    Len(s) >= Len(p) /\ SubSeq(s, Len(s) - Len(p) + 1, Len(s)) = p

contains(s, p) ==
    \E i \in 1..(Len(s) - Len(p) + 1) : SubSeq(s, i, i + Len(p) - 1) = p

eq_ignore_ascii_case(a, b) == to_lowercase(a) = to_lowercase(b)

\* str::trim_start: the string from its first non-whitespace character on.
RECURSIVE TrimStartFrom(_, _)
TrimStartFrom(s, i) ==
    IF i > Len(s) THEN ""
    ELSE IF is_whitespace(At(s, i)) THEN TrimStartFrom(s, i + 1)
    ELSE SubSeq(s, i, Len(s))

trim_start(s) == TrimStartFrom(s, 1)

\* str::trim_start_matches(p): p is removed from the front as often as it occurs.
RECURSIVE trim_start_matches(_, _)
trim_start_matches(s, p) ==
    IF Len(p) > 0 /\ starts_with(s, p)
    THEN trim_start_matches(SubSeq(s, Len(p) + 1, Len(s)), p)
    ELSE s

\* str::split(ch): the pieces between the occurrences of ch, empty ones kept.
RECURSIVE SplitFrom(_, _, _, _)
SplitFrom(s, ch, i, cur) ==
    IF i > Len(s) THEN <<cur>>
    ELSE IF At(s, i) = ch THEN <<cur>> \o SplitFrom(s, ch, i + 1, "")
    ELSE SplitFrom(s, ch, i + 1, cur \o At(s, i))

split(s, ch) == SplitFrom(s, ch, 1, "")

\* str::split_whitespace: the maximal runs of non-whitespace characters.
RECURSIVE SplitWsFrom(_, _, _)
SplitWsFrom(s, i, cur) ==
    IF i > Len(s) THEN (IF cur = "" THEN <<>> ELSE <<cur>>)
    ELSE IF is_whitespace(At(s, i))
         THEN (IF cur = "" THEN <<>> ELSE <<cur>>) \o SplitWsFrom(s, i + 1, "")
         ELSE SplitWsFrom(s, i + 1, cur \o At(s, i))

split_whitespace(s) == SplitWsFrom(s, 1, "")

all_ascii_digits(s) == \A i \in 1..Len(s) : is_ascii_digit(At(s, i))

RECURSIVE DigitsValue(_, _, _)
DigitsValue(s, i, acc) ==
    IF i > Len(s) THEN acc ELSE DigitsValue(s, i + 1, acc * 10 + DigitVal(At(s, i)))

\* str::parse::<usize>() (and ::<u64>): an optional '+', then one or more
\* digits.  The digit runs of the model are short, so the overflow error of
\* parse is never met.
parse_usize(s) ==
    LET body == IF starts_with(s, "+") THEN SubSeq(s, 2, Len(s)) ELSE s
    IN  IF Len(body) = 0 \/ ~all_ascii_digits(body) THEN None
        ELSE Some(DigitsValue(body, 1, 0))

----------------------------------------------------------------------------
(* The parser: parse_webpmux_info and its helpers.                         *)

RECURSIVE ExtractFrom(_, _, _)
ExtractFrom(line, i, current) ==
    LET flush == IF current = "" THEN <<>>
                 ELSE LET p == parse_usize(current)
                      IN  IF p.some THEN <<p.v>> ELSE <<>>
    IN  IF i > Len(line) THEN flush
        ELSE IF is_ascii_digit(At(line, i))
             THEN ExtractFrom(line, i + 1, current \o At(line, i))
             ELSE flush \o ExtractFrom(line, i + 1, "")

extract_numbers(line) == ExtractFrom(line, 1, "")

parse_dimensions_from_line(line) ==
    LET parts == split(line, "x")
    IN  IF Len(parts) < 2 THEN None
        ELSE LET left  == extract_numbers(parts[1])
                 right == extract_numbers(parts[2])
             IN  IF Len(left) = 0 \/ Len(right) = 0 THEN None
                 ELSE Some(<<left[1], right[1]>>)

is_frame_header(lower) ==
    IF ~starts_with(lower, "frame") THEN FALSE
    ELSE LET rest == trim_start(trim_start_matches(lower, "frame"))
         IN  starts_with(rest, "#")
             \/ (Len(rest) > 0 /\ is_ascii_digit(At(rest, 1)))

\* a variant with other defaults
FrameInfoZero ==
    [offset_x |-> 0, offset_y |-> 0, duration_ms |-> 0,
     dispose_background |-> FALSE, blend |-> FALSE]

\* FrameInfo::default()
FrameInfoDefault ==
    [offset_x |-> 0, offset_y |-> 0, duration_ms |-> 33,
     dispose_background |-> FALSE, blend |-> TRUE]

MinColumns == 8

parse_table_frame(line) ==
    LET all == split_whitespace(line)
    IN  IF Len(all) = 0 THEN None
        ELSE
        LET first == all[1]
            parts == IF ends_with(first, ":") THEN Tail(all)
                     ELSE IF all_ascii_digits(first) /\ Len(all) >= 2 /\ all[2] = ":"
                          THEN Tail(Tail(all))
                          ELSE all
        IN  IF Len(parts) < MinColumns THEN None
            ELSE
            LET width       == parse_usize(parts[1])
                height      == parse_usize(parts[2])
                offset_x    == parse_usize(parts[4])
                offset_y    == parse_usize(parts[5])
                duration_ms == parse_usize(parts[6])
            IN  IF ~width.some \/ ~height.some \/ ~offset_x.some
                   \/ ~offset_y.some \/ ~duration_ms.some THEN None
                ELSE IF width.v = 0 \/ height.v = 0 THEN None
                ELSE Some([offset_x |-> offset_x.v,
                           offset_y |-> offset_y.v,
                           duration_ms |-> duration_ms.v,
                           dispose_background |->
                               eq_ignore_ascii_case(parts[7], "background"),
                           blend |-> eq_ignore_ascii_case(parts[8], "yes")])

\* a variant of canvas_after that keeps the first canvas size found
canvas_first_found(cv, line, lower) ==
    LET dims == IF contains(lower, "canvas") /\ contains(lower, "x")
                THEN parse_dimensions_from_line(line) ELSE None
    IN  IF cv.some THEN cv ELSE dims

\* lines 438-442: the canvas after a line of the first loop
canvas_after(cv, line, lower) ==
    LET dims == IF contains(lower, "canvas") /\ contains(lower, "x")
                THEN parse_dimensions_from_line(line) ELSE None
    IN  IF dims.some THEN dims ELSE cv

\* a variant of the first loop that ends at the first row that is not a
\* frame
RECURSIVE TablePassStop(_, _, _, _, _)
TablePassStop(output, i, cv, frames, in_table) ==
    IF i > Len(output) THEN [canvas |-> cv, frames |-> frames]
    ELSE
    LET line  == output[i]
        lower == to_lowercase(line)
        cv1   == canvas_after(cv, line, lower)
    IN  IF starts_with(lower, "no.:")
        THEN TablePassStop(output, i + 1, cv1, frames, TRUE)
        ELSE IF in_table
             THEN LET f == parse_table_frame(line)
                  IN  IF f.some
                      THEN TablePassStop(output, i + 1, cv1,
                                         Append(frames, f.v), TRUE)
                      ELSE [canvas |-> cv1, frames |-> frames]
             ELSE TablePassStop(output, i + 1, cv1, frames, FALSE)

\* The first loop of parse_webpmux_info (lines 436-455) from line i on, with
\* the loop's three variables: the canvas found so far, the frames pushed so
\* far, and in_table.
RECURSIVE TablePass(_, _, _, _, _)
TablePass(output, i, cv, frames, in_table) ==
    IF i > Len(output) THEN [canvas |-> cv, frames |-> frames]
    ELSE
    LET line  == output[i]
        lower == to_lowercase(line)
        cv1   == canvas_after(cv, line, lower)
    IN  IF starts_with(lower, "no.:")
        THEN TablePass(output, i + 1, cv1, frames, TRUE)
        ELSE IF in_table
             THEN LET f == parse_table_frame(line)
                  IN  TablePass(output, i + 1, cv1,
                                IF f.some THEN Append(frames, f.v) ELSE frames,
                                TRUE)
             ELSE TablePass(output, i + 1, cv1, frames, FALSE)

\* One line of the second loop (lines 459-492) applied to the open record.
UpdateCurrent(frame, line, lower) ==
    IF contains(lower, "offset")
    THEN LET nums == extract_numbers(line)
         IN  IF Len(nums) >= 2
             THEN [frame EXCEPT !.offset_x = nums[1], !.offset_y = nums[2]]
             ELSE frame
    ELSE IF contains(lower, "duration")
    THEN LET nums == extract_numbers(line)
         IN  IF Len(nums) >= 1 THEN [frame EXCEPT !.duration_ms = nums[1]]
             ELSE frame
    ELSE IF contains(lower, "dispose")
    THEN [frame EXCEPT !.dispose_background =
              contains(lower, "background") \/ contains(lower, "1")]
    ELSE IF contains(lower, "blend")
    THEN [frame EXCEPT !.blend =
              contains(lower, "yes") \/ contains(lower, "true")
              \/ contains(lower, "1")]
    ELSE frame

\* The second loop (lines 458-496): current is the open record (an Option).
RECURSIVE HeaderPass(_, _, _, _)
HeaderPass(output, i, current, frames) ==
    IF i > Len(output)
    THEN (IF current.some THEN Append(frames, current.v) ELSE frames)
    ELSE
    LET line  == output[i]
        lower == to_lowercase(line)
    IN  IF is_frame_header(lower)
        THEN HeaderPass(output, i + 1, Some(FrameInfoDefault),
                        IF current.some THEN Append(frames, current.v)
                        ELSE frames)
        ELSE HeaderPass(output, i + 1,
                        IF current.some
                        THEN Some(UpdateCurrent(current.v, line, lower))
                        ELSE current,
                        frames)

PreviewLines == 25

ErrNoCanvas == "webpmux did not report a canvas size"
ErrNoFrames == "webpmux did not report any frames. Output preview:\n"

Ok(v) == [ok |-> TRUE, v |-> v]
Err(msg) == [ok |-> FALSE, msg |-> msg]

\* [&str]::join(sep)
RECURSIVE JoinFrom(_, _, _)
JoinFrom(lines, sep, i) ==
    IF i > Len(lines) THEN ""
    ELSE IF i = Len(lines) THEN lines[i]
    ELSE lines[i] \o sep \o JoinFrom(lines, sep, i + 1)

join(lines, sep) == JoinFrom(lines, sep, 1)

\* a variant that takes one line less
preview_short(output) ==
    join(SubSeq(output, 1, Min(PreviewLines - 1, Len(output))), "\n")

\* line 502
preview(output) == join(SubSeq(output, 1, Min(PreviewLines, Len(output))), "\n")

\* lines 457-497, a variant: the second loop is run whatever the first
\* loop found, and its frames are added
frames_of_both_loops(output, table_frames) ==
    table_frames \o HeaderPass(output, 1, None, <<>>)

\* lines 457-497: the second loop is run when the first one pushed no frame
frames_after_table(output, table_frames) ==
    IF table_frames = <<>> THEN HeaderPass(output, 1, None, <<>>)
    ELSE table_frames

parse_webpmux_info(output) ==
    LET t      == TablePass(output, 1, None, <<>>, FALSE)
        frames == frames_after_table(output, t.frames)
    IN  IF ~t.canvas.some THEN Err(ErrNoCanvas)
        ELSE IF frames = <<>>
        THEN Err(ErrNoFrames \o preview(output))
        ELSE Ok([canvas_w |-> t.canvas.v[1], canvas_h |-> t.canvas.v[2],
                 frames |-> frames])

----------------------------------------------------------------------------
(* Rasters: an RgbaImage is its width, its height and its pixels, a pixel  *)
(* is <<r, g, b, a>>.                                                      *)

Opaque == 255

White       == <<255, 255, 255, Opaque>>
Red         == <<255, 0, 0, Opaque>>
Blue        == <<0, 0, 255, Opaque>>
Transparent == <<0, 0, 0, 0>>

\* RgbaImage::from_pixel
from_pixel(w, h, p) ==
    [w |-> w, h |-> h, px |-> [xy \in (0..(w - 1)) \X (0..(h - 1)) |-> p]]

\* Rgba::blend as imageops::overlay applies it, for the source alphas of the
\* model: a fully transparent source leaves the destination, a fully opaque
\* one replaces it.
blend_pixel(dst, src) ==
    CASE src[4] = 0      -> dst
      [] src[4] = Opaque -> src

\* A variant of composite_frame that blends whatever the frame asks for.
composite_frame_blended(cv, frame, offset_x, offset_y, blend) ==
    [cv EXCEPT !.px =
        [xy \in DOMAIN cv.px |->
            LET x == xy[1] - offset_x
                y == xy[2] - offset_y
            IN  IF x >= 0 /\ x < frame.w /\ y >= 0 /\ y < frame.h
                THEN blend_pixel(cv.px[xy], frame.px[<<x, y>>])
                ELSE cv.px[xy]]]

\* composite_frame: the canvas pixel at (x, y) is written exactly when
\* (x - offset_x, y - offset_y) is a pixel of the frame; the positions that
\* fall outside the canvas are skipped (the `continue`s, and overlay's own
\* clipping).
composite_frame(cv, frame, offset_x, offset_y, blend) ==
    [cv EXCEPT !.px =
        [xy \in DOMAIN cv.px |->
            LET x == xy[1] - offset_x
                y == xy[2] - offset_y
            IN  IF x >= 0 /\ x < frame.w /\ y >= 0 /\ y < frame.h
                THEN IF blend THEN blend_pixel(cv.px[xy], frame.px[<<x, y>>])
                     ELSE frame.px[<<x, y>>]
                ELSE cv.px[xy]]]

\* A variant of clear_rect that clears the rows of the rectangle over the
\* whole width of the canvas.
clear_rows(cv, x, y, w, h) ==
    [cv EXCEPT !.px =
        [xy \in DOMAIN cv.px |->
            IF xy[2] >= y /\ xy[2] < y + h THEN Transparent ELSE cv.px[xy]]]

\* clear_rect
clear_rect(cv, x, y, w, h) ==
    [cv EXCEPT !.px =
        [xy \in DOMAIN cv.px |->
            IF xy[1] >= x /\ xy[1] < x + w /\ xy[2] >= y /\ xy[2] < y + h
            THEN Transparent
            ELSE cv.px[xy]]]

----------------------------------------------------------------------------
(* Numbers and paths as text.                                              *)

\* usize as Display prints it
RECURSIVE to_string(_)
to_string(n) ==
    IF n < 10 THEN At(DigitChars, n + 1)
    ELSE to_string(n \div 10) \o At(DigitChars, (n % 10) + 1)

\* {:04}
RECURSIVE PadLeft(_, _)
PadLeft(s, width) == IF Len(s) >= width THEN s ELSE PadLeft("0" \o s, width)

Pad4Width == 4

\* {:.6} of (ms as f64) / 1000.0: the seconds, a point, six decimals
MicrosWidth == 6
MsPerSecond == 1000

format_seconds(duration_ms) ==
    to_string(duration_ms \div MsPerSecond) \o "."
        \o PadLeft(to_string((duration_ms % MsPerSecond) * 1000), MicrosWidth)

\* escape_concat_path: every ' becomes '\''
RECURSIVE EscapeFrom(_, _)
EscapeFrom(path, i) ==
    IF i > Len(path) THEN ""
    ELSE (IF At(path, i) = "'" THEN "'\\''" ELSE At(path, i))
             \o EscapeFrom(path, i + 1)

escape_concat_path(path) == EscapeFrom(path, 1)

RECURSIVE ConcatLines(_, _)
ConcatLines(paths, i) ==
    IF i > Len(paths) THEN <<>>
    ELSE <<"file '" \o escape_concat_path(paths[i].path) \o "'">>
         \o (IF paths[i].duration_ms > 0
             THEN <<"duration " \o format_seconds(paths[i].duration_ms)>>
             ELSE <<>>)
         \o ConcatLines(paths, i + 1)

\* a variant without the last line
concat_list_lines_open(paths) == ConcatLines(paths, 1)

\* build_concat_list: the lines of the list; the function returns them
\* joined by "\n".
concat_list_lines(paths) ==
    ConcatLines(paths, 1)
        \o (IF Len(paths) > 0
            THEN <<"file '" \o escape_concat_path(paths[Len(paths)].path) \o "'">>
            ELSE <<>>)

build_concat_list(paths) == join(concat_list_lines(paths), "\n")

\* str::trim, for the stderr texts of the tools
RECURSIVE trim_end(_)
trim_end(s) ==
    IF Len(s) > 0 /\ is_whitespace(At(s, Len(s)))
    THEN trim_end(SubSeq(s, 1, Len(s) - 1)) ELSE s

trim(s) == trim_end(trim_start(s))

----------------------------------------------------------------------------
(* The job's inputs: the options, the WebP file, and what the tools print. *)

\* static_duration is held in microseconds (1.0 s = 1000000), so that the
\* clamp to [0.1, 60.0] and the conversion to milliseconds are exact.
DefaultStaticDuration == 1000000
MinStaticDuration == 100000
MaxStaticDuration == 60000000

\* lines 910-919: the quality preset, (crf, preset)
quality_preset(quality) ==
    IF quality = "balanced" THEN [crf |-> 18, preset |-> "medium"]
    ELSE IF quality = "small" THEN [crf |-> 24, preset |-> "fast"]
    ELSE [crf |-> 12, preset |-> "slow"]

\* A variant of quality_of that matches the option as the caller spelled it.
quality_as_spelled(o) ==
    IF o.quality.some THEN o.quality.v ELSE "high"

\* options.quality.as_deref().unwrap_or("high").to_lowercase()
quality_of(o) ==
    to_lowercase(IF o.quality.some THEN o.quality.v ELSE "high")

\* ConversionSettings::from_options, the fields the pipeline reads
from_options(o) ==
    LET sd == IF o.static_duration.some THEN o.static_duration.v
              ELSE DefaultStaticDuration
    IN  [crf |-> quality_preset(quality_of(o)).crf,
         preset |-> quality_preset(quality_of(o)).preset,
         fps |-> o.fps,
         background |-> o.background,
         static_duration |->
             IF sd < MinStaticDuration THEN MinStaticDuration
             ELSE IF sd > MaxStaticDuration THEN MaxStaticDuration
             ELSE sd]

\* (settings.static_duration * 1000.0) as u64
static_duration_ms(s) == s.static_duration \div 1000

\* ConversionSettings::background_rgba; no background is requested in the
\* jobs of the model.
background_rgba(s) == White

OptionsSet ==
    [quality : {None},
     fps : {None, Some(30)},
     background : {None},
     static_duration : {None, Some(50000)}]

\* The decoded frames of the input files.
ImageSolid == [w |-> 2, h |-> 1, px |-> (<<0, 0>> :> Red @@ <<1, 0>> :> Blue)]
ImageHole  == [w |-> 2, h |-> 1, px |-> (<<0, 0>> :> Transparent @@ <<1, 0>> :> Red)]

MaxFrames == 2

\* The frames of the input files: every placement, disposal and blend mode;
\* a frame at the origin is 40 ms of ImageHole, a frame at (2, 1), which
\* reaches over the right edge of the canvas, is 0 ms of ImageSolid.  One
\* more frame lies wholly outside the canvas, at (3, 0).
FrameOutside ==
    [offset |-> <<3, 0>>, dispose |-> TRUE, blend |-> FALSE,
     look |-> [duration_ms |-> 0, image |-> ImageSolid]]

FrameSet ==
    { [offset |-> o, dispose |-> d, blend |-> b,
       look |-> IF o = <<0, 0>>
                THEN [duration_ms |-> 40, image |-> ImageHole]
                ELSE [duration_ms |-> 0, image |-> ImageSolid]] :
          o \in {<<0, 0>>, <<2, 1>>}, d \in BOOLEAN, b \in BOOLEAN }
        \cup { FrameOutside }

CanvasSet == { <<3, 2>> }

WebpFiles ==
    { [canvas |-> c, frames |-> fs] :
          c \in CanvasSet, fs \in SeqsUpTo(FrameSet, MaxFrames) \ { <<>> } }

\* What `webpmux -info` prints for a file, in the tabular layout.
TableRow(i, f) ==
    to_string(i) \o ": " \o to_string(f.look.image.w) \o " "
        \o to_string(f.look.image.h) \o " no "
        \o to_string(f.offset[1]) \o " " \o to_string(f.offset[2]) \o " "
        \o to_string(f.look.duration_ms) \o " "
        \o (IF f.dispose THEN "background" ELSE "none") \o " "
        \o (IF f.blend THEN "yes" ELSE "no")

CanvasLine(file) ==
    "Canvas size: " \o to_string(file.canvas[1]) \o " x "
        \o to_string(file.canvas[2])

TableReport(file) ==
    <<CanvasLine(file),
      "No.: width height alpha x_offset y_offset duration dispose blend">>
        \o [i \in 1..Len(file.frames) |-> TableRow(i, file.frames[i])]

\* What the tool can print for a file: the table, the canvas line alone, or
\* text the parser does not know; line 246 then adds a line break and the
\* (empty) error output, which makes one more, empty, line.
Reports(file) ==
    { printed \o <<"">> :
          printed \in { TableReport(file), <<CanvasLine(file)>>,
                        <<"unexpected output">> } }

StderrTexts == { "", " bad chunk\n" }
IoErrors == { "No such file or directory (os error 2)" }

OutputPath == "out/anim.mp4"
InputPath == "in/anim.webp"
TempRoot == "/tmp"

\* a variant that names the directory by the clock alone
temp_dir_name_by_clock(stamp, count) ==
    TempRoot \o "/webpconv-" \o to_string(stamp)

\* create_temp_dir: the name of the directory
temp_dir_name(stamp, count) ==
    TempRoot \o "/webpconv-" \o to_string(stamp) \o "-" \o to_string(count)

Stamps == { 7 }

frame_file(dir, stem, frame_index, ext) ==
    dir \o "/" \o stem \o "_" \o PadLeft(to_string(frame_index), Pad4Width)
        \o ext

EmptyDir ==
    [path |-> "", frame_webp |-> 0, frame_png |-> <<>>, composed_png |-> <<>>,
     concat_txt |-> None]

----------------------------------------------------------------------------
(* convert_webp_to_mp4_sync and fallback_convert_with_webpmux, one action  *)
(* per step; the outcome of each external step (a file test, a tool, a     *)
(* write) is chosen by the environment.                                    *)

\* an event carries, besides its progress and stage, the number of
\* external steps started before it was emitted
emit_progress(progress, stage) ==
    events' = Append(events, [progress |-> progress, stage |-> stage,
                              after |-> Len(steps')])

StepRec(op, frame) == [op |-> op, frame |-> frame]

Step(op, frame) == steps' = Append(steps, StepRec(op, frame))

Return(r) == /\ result' = r
             /\ pc' = "returned"

FrameIndex == Len(frame_paths) + 1

CompositingRange == 80

\* a variant that drops the fraction
compositing_progress_truncated(frame_index, total) ==
    (CompositingRange * frame_index) \div total

\* ((frame_index as f64 / frames.len() as f64) * 80.0).round() as u8; round
\* takes a half away from zero, and for the frame counts of the model the
\* f64 quotient and product round as the exact fraction does
compositing_progress(frame_index, total) ==
    (2 * CompositingRange * frame_index + total) \div (2 * total)

\* lines 34-73: the input test, the first event, the settings, the output path
Prepare ==
    /\ pc = "start"
    /\ UNCHANGED steps
    /\ \E outcome \in {"missing", "bad_stem", "mkdir_failed", "ok"} :
         IF outcome = "missing"
         THEN /\ Return(Err("Input file does not exist"))
              /\ UNCHANGED <<events, settings>>
         ELSE /\ emit_progress(0, "starting")
              /\ settings' = from_options(options)
              /\ CASE outcome = "bad_stem" ->
                        Return(Err("Invalid input file name"))
                   [] outcome = "mkdir_failed" ->
                        \E e \in IoErrors :
                            Return(Err("Failed to create output directory: " \o e))
                   [] outcome = "ok" ->
                        /\ pc' = "locate_ffmpeg"
                        /\ UNCHANGED result
    /\ UNCHANGED <<procVars, fnVars, webp, options, scratch, parsed, canvas,
                   temp_dir, frame_paths, err, fallback_err, log_writes,
                   final_cmd>>

\* write_debug_log: the report is written, or it is not
write_debug_log(error, written) ==
    log_writes' = Append(log_writes, [error |-> error, written |-> written])

LogPath == "data/webpconv-error-7.log"

\* lines 76-83
LocateFfmpeg ==
    /\ pc = "locate_ffmpeg"
    /\ \/ /\ pc' = "probe"
          /\ UNCHANGED <<result, log_writes>>
       \/ \E e \in IoErrors, written \in BOOLEAN :
            LET msg == "Failed to locate ffmpeg: " \o e
            IN  /\ write_debug_log(msg, written)
                /\ Return(Err(msg))
    /\ UNCHANGED <<procVars, fnVars, webp, options, settings, events, steps, scratch,
                   parsed, canvas, temp_dir, frame_paths, err, fallback_err,
                   final_cmd>>

\* line 85: is_animated_webp(&input)?
ProbeAnimated ==
    /\ pc = "probe"
    /\ \/ /\ pc' = "direct_encode"
          /\ UNCHANGED result
       \/ \E e \in IoErrors : Return(Err(e))
    /\ UNCHANGED <<procVars, fnVars, webp, options, settings, events, steps, scratch,
                   parsed, canvas, temp_dir, frame_paths, err, fallback_err,
                   log_writes, final_cmd>>

\* the message of a tool that exited with a failure status
tool_failed(what, stderr) == what \o ": " \o trim(stderr)

\* a variant that runs the fallback whatever the direct encode returned
after_direct_always(encoded) == "resolve_tools"

\* line 87, `if let Err(err) = run_ffmpeg_conversion(..)`: where the job
\* goes on after the direct encode
after_direct(encoded) == IF encoded THEN "finish" ELSE "resolve_tools"

\* lines 87-93 and run_ffmpeg_conversion
DirectEncode ==
    /\ pc = "direct_encode"
    /\ Step("direct_encode", 0)
    /\ \/ /\ pc' = after_direct(TRUE)
          /\ UNCHANGED err
       \/ \E e \in IoErrors :
            /\ err' = Some("Failed to execute FFmpeg: " \o e)
            /\ pc' = after_direct(FALSE)
       \/ \E stderr \in StderrTexts :
            /\ err' = Some(IF trim(stderr) = "" THEN "FFmpeg conversion failed"
                           ELSE tool_failed("FFmpeg conversion failed", stderr))
            /\ pc' = after_direct(FALSE)
    /\ UNCHANGED <<procVars, fnVars, webp, options, settings, events, scratch, parsed,
                   canvas, temp_dir, frame_paths, fallback_err, log_writes,
                   final_cmd, result>>

\* resolve_webp_tool_path fails when the tool's file is found and
\* ensure_executable cannot make it executable (lines 798-801)
tool_error(name) ==
    "Failed to set executable bit for resources/webp/" \o name
        \o ": Permission denied (os error 13)"

\* lines 94-101: both tools are resolved, then the `?` of the webpmux
\* argument and the `?` of the dwebp argument return the job's error
ResolveTools ==
    /\ pc = "resolve_tools"
    /\ Step("resolve_tools", 0)
    /\ \E webpmux_ok \in BOOLEAN, dwebp_ok \in BOOLEAN :
         IF ~webpmux_ok THEN Return(Err(tool_error("webpmux")))
         ELSE IF ~dwebp_ok THEN Return(Err(tool_error("dwebp")))
         ELSE /\ pc' = "create_temp_dir"
              /\ UNCHANGED result
    /\ UNCHANGED <<procVars, fnVars, webp, options, settings, events, scratch, parsed,
                   canvas, temp_dir, frame_paths, err, fallback_err,
                   log_writes, final_cmd>>

\* a variant that records the error and tries the step again
FallbackRetries(msg) ==
    /\ fallback_err' = Some(msg)
    /\ pc' = pc

\* fallback_convert_with_webpmux returns Err(msg) to line 96
FallbackFails(msg) ==
    /\ fallback_err' = Some(msg)
    /\ pc' = "fallback_failed"

\* line 233
CreateTempDir ==
    /\ pc = "create_temp_dir"
    /\ Step("create_temp_dir", 0)
    /\ counter' = counter + 1
    /\ \/ \E stamp \in Stamps :
            LET path == temp_dir_name(stamp, counter)
            IN  /\ temp_dir' = Some(path)
                /\ scratch' = Some([EmptyDir EXCEPT !.path = path])
                /\ pc' = "inspect"
                /\ UNCHANGED fallback_err
       \/ \E e \in IoErrors :
            /\ FallbackFails("Failed to create temp dir: " \o e)
            /\ UNCHANGED <<temp_dir, scratch>>
    /\ UNCHANGED <<previous, fnVars, webp, options, settings, events, parsed, canvas,
                   frame_paths, err, log_writes, final_cmd, result>>

\* lines 234-254: webpmux -info, the parse, the canvas
Inspect ==
    /\ pc = "inspect"
    /\ Step("webpmux_info", 0)
    /\ \/ \E e \in IoErrors :
            /\ FallbackFails("Failed to execute webpmux: " \o e)
            /\ UNCHANGED <<parsed, canvas>>
       \/ \E stderr \in StderrTexts :
            /\ FallbackFails(tool_failed("webpmux -info failed", stderr))
            /\ UNCHANGED <<parsed, canvas>>
       \/ \E report \in Reports(webp) :
            \E info \in { parse_webpmux_info(report) } :
                IF ~info.ok
                THEN /\ FallbackFails(info.msg)
                     /\ UNCHANGED <<parsed, canvas>>
                ELSE /\ parsed' = Some(info.v)
                     /\ canvas' = from_pixel(info.v.canvas_w, info.v.canvas_h,
                                             background_rgba(settings))
                     /\ pc' = "extract"
                     /\ UNCHANGED fallback_err
    /\ UNCHANGED <<procVars, fnVars, webp, options, settings, events, scratch, temp_dir,
                   frame_paths, err, log_writes, final_cmd, result>>

\* lines 262-283: webpmux -get frame <index>
ExtractFrame ==
    /\ pc = "extract"
    /\ Step("webpmux_get", FrameIndex)
    /\ \/ /\ scratch' = Some([scratch.v EXCEPT !.frame_webp = FrameIndex])
          /\ pc' = "decode"
          /\ UNCHANGED fallback_err
       \/ \E e \in IoErrors :
            /\ FallbackFails("Failed to extract frame " \o to_string(FrameIndex)
                             \o ": " \o e)
            /\ UNCHANGED scratch
       \/ \E stderr \in StderrTexts :
            /\ FallbackFails(tool_failed("webpmux failed extracting frame "
                                         \o to_string(FrameIndex), stderr))
            /\ UNCHANGED scratch
    /\ UNCHANGED <<procVars, fnVars, webp, options, settings, events, parsed, canvas,
                   temp_dir, frame_paths, err, log_writes, final_cmd, result>>

\* lines 285-305: dwebp writes the frame's raster
DecodeFrame ==
    /\ pc = "decode"
    /\ Step("dwebp", FrameIndex)
    /\ \/ /\ scratch' = Some([scratch.v EXCEPT !.frame_png =
                  Append(@, webp.frames[FrameIndex].look.image)])
          /\ pc' = "compose"
          /\ UNCHANGED fallback_err
       \/ \E e \in IoErrors :
            /\ FallbackFails("Failed to decode frame " \o to_string(FrameIndex)
                             \o ": " \o e)
            /\ UNCHANGED scratch
       \/ \E stderr \in StderrTexts :
            /\ FallbackFails(tool_failed("dwebp failed decoding frame "
                                         \o to_string(FrameIndex), stderr))
            /\ UNCHANGED scratch
    /\ UNCHANGED <<procVars, fnVars, webp, options, settings, events, parsed, canvas,
                   temp_dir, frame_paths, err, log_writes, final_cmd, result>>

\* a variant that clears the disposed rectangle before the canvas is saved
dispose_then_save(cv, frame, frame_img) ==
    LET composed == composite_frame(cv, frame_img, frame.offset_x,
                                    frame.offset_y, frame.blend)
        cleared  == IF frame.dispose_background
                    THEN clear_rect(composed, frame.offset_x, frame.offset_y,
                                    frame_img.w, frame_img.h)
                    ELSE composed
    IN  [saved |-> cleared, canvas |-> cleared]

\* lines 310-336 on the canvas: the frame is composited, the canvas is saved
\* (saved), then the frame's rectangle is cleared if it disposes to
\* background (canvas is what the next frame is composited onto)
compose_and_dispose(cv, frame, frame_img) ==
    LET composed == composite_frame(cv, frame_img, frame.offset_x,
                                    frame.offset_y, frame.blend)
    IN  [saved  |-> composed,
         canvas |-> IF frame.dispose_background
                    THEN clear_rect(composed, frame.offset_x, frame.offset_y,
                                    frame_img.w, frame_img.h)
                    ELSE composed]

\* a variant that always takes the descriptor's duration
descriptor_duration(total, s, frame) == frame.duration_ms

\* lines 321-325
frame_duration(total, s, frame) ==
    IF total = 1 THEN static_duration_ms(s) ELSE frame.duration_ms

\* lines 307-339: the frame is read and composited, the canvas is saved and
\* recorded with its duration, the frame's rectangle is cleared if it
\* disposes to background, and the checkpoint is emitted
ComposeFrame ==
    /\ pc = "compose"
    /\ Step("compose", FrameIndex)
    /\ LET frame     == parsed.v.frames[FrameIndex]
           total     == Len(parsed.v.frames)
           frame_img == scratch.v.frame_png[FrameIndex]
           done      == compose_and_dispose(canvas, frame, frame_img)
           composed_png == frame_file(temp_dir.v, "composed", FrameIndex, ".png")
           duration_ms == frame_duration(total, settings, frame)
       IN  \/ \E e \in IoErrors :
                /\ FallbackFails("Failed to read frame " \o to_string(FrameIndex)
                                 \o ": " \o e)
                /\ UNCHANGED <<canvas, scratch, frame_paths, events>>
           \/ \E e \in IoErrors :
                /\ canvas' = done.saved
                /\ FallbackFails("Failed to write composed frame "
                                 \o to_string(FrameIndex) \o ": " \o e)
                /\ UNCHANGED <<scratch, frame_paths, events>>
           \/ /\ scratch' = Some([scratch.v EXCEPT !.composed_png =
                                      Append(@, done.saved)])
              /\ frame_paths' = Append(frame_paths,
                     [path |-> composed_png, duration_ms |-> duration_ms])
              /\ canvas' = done.canvas
              /\ emit_progress(compositing_progress(FrameIndex, total),
                               "compositing")
              /\ pc' = IF FrameIndex = total THEN "assemble" ELSE "extract"
              /\ UNCHANGED fallback_err
    /\ UNCHANGED <<procVars, fnVars, webp, options, settings, parsed, temp_dir, err,
                   log_writes, final_cmd, result>>

\* lines 248-250: the scale filter of the final encoder
even_up(n) == IF n % 2 = 0 THEN n ELSE n + 1

scale_filter(canvas_w, canvas_h) ==
    "scale=" \o to_string(even_up(canvas_w)) \o ":" \o to_string(even_up(canvas_h))

\* a variant that never loops a single image
final_command_sequence(s, paths, dir, concat_str, vf) ==
    IF s.fps.some
    THEN [mode |-> "sequence", input |-> dir \o "/composed_%04d.png",
          loop_t |-> None, framerate |-> s.fps,
          vsync |-> "cfr", vf |-> vf, output |-> OutputPath]
    ELSE [mode |-> "concat", input |-> concat_str,
          loop_t |-> None, framerate |-> None,
          vsync |-> "vfr", vf |-> vf, output |-> OutputPath]

\* lines 359-415: the input arguments of the final encoder, by mode
final_command(s, paths, dir, concat_str, vf) ==
    IF s.fps.some
    THEN IF Len(paths) = 1
         THEN [mode |-> "loop", input |-> paths[1].path,
               loop_t |-> Some(s.static_duration), framerate |-> None,
               vsync |-> "cfr", vf |-> vf, output |-> OutputPath]
         ELSE [mode |-> "sequence", input |-> dir \o "/composed_%04d.png",
               loop_t |-> None, framerate |-> s.fps,
               vsync |-> "cfr", vf |-> vf, output |-> OutputPath]
    ELSE [mode |-> "concat", input |-> concat_str,
          loop_t |-> None, framerate |-> None,
          vsync |-> "vfr", vf |-> vf, output |-> OutputPath]

\* lines 342-428: the concat list (when no frame rate is set), the final
\* encoder, the removal of the scratch directory, the last checkpoint
Assemble ==
    /\ pc = "assemble"
    /\ LET concat_path == temp_dir.v \o "/concat.txt"
           concat_str  == IF settings.fps.some THEN "" ELSE concat_path
           listed      == IF settings.fps.some THEN scratch.v
                          ELSE [scratch.v EXCEPT !.concat_txt =
                                    Some(build_concat_list(frame_paths))]
           cmd == final_command(settings, frame_paths, temp_dir.v, concat_str,
                                scale_filter(parsed.v.canvas_w,
                                             parsed.v.canvas_h))
           encode_steps ==
               (IF settings.fps.some THEN <<>>
                ELSE <<StepRec("write_concat", 0)>>)
                   \o <<StepRec("final_encode", 0)>>
       IN  \/ /\ ~settings.fps.some
              /\ \E e \in IoErrors :
                   FallbackFails("Failed to write concat file: " \o e)
              /\ Step("write_concat", 0)
              /\ UNCHANGED <<scratch, final_cmd, events>>
           \/ /\ \E e \in IoErrors :
                   FallbackFails("Failed to execute FFmpeg: " \o e)
              /\ steps' = steps \o encode_steps
              /\ final_cmd' = Some(cmd)
              /\ scratch' = Some(listed)
              /\ UNCHANGED events
           \/ /\ \E stderr \in StderrTexts :
                   FallbackFails(tool_failed("Fallback FFmpeg failed", stderr))
              /\ steps' = steps \o encode_steps
              /\ final_cmd' = Some(cmd)
              /\ scratch' = None
              /\ UNCHANGED events
           \/ /\ steps' = steps \o encode_steps
              /\ final_cmd' = Some(cmd)
              /\ scratch' = None
              /\ emit_progress(95, "encoding")
              /\ pc' = "finish"
              /\ UNCHANGED fallback_err
    /\ UNCHANGED <<procVars, fnVars, webp, options, settings, parsed, canvas, temp_dir,
                   frame_paths, err, log_writes, result>>

\* a variant whose message drops the errors when the log is not written
failure_message_short(written, combined) ==
    IF written THEN "Conversion failed. Log: " \o LogPath \o "\n" \o combined
    ELSE "Conversion failed. Log unavailable."

\* lines 118-122: the job's error, from the outcome of the log write
failure_message(written, combined) ==
    (IF written THEN "Conversion failed. Log: " \o LogPath
     ELSE "Conversion failed. Log unavailable.") \o "\n" \o combined

\* lines 107-122: both messages, the log, the job's error
ReportFailure ==
    /\ pc = "fallback_failed"
    /\ \E written \in BOOLEAN :
         LET combined == err.v \o "\n" \o fallback_err.v
         IN  /\ write_debug_log(combined, written)
             /\ Return(Err(failure_message(written, combined)))
    /\ UNCHANGED <<procVars, fnVars, webp, options, settings, events, steps, scratch,
                   parsed, canvas, temp_dir, frame_paths, err, fallback_err,
                   final_cmd>>

\* a variant that returns the output path without the last event
FinishSilent ==
    /\ pc = "finish"
    /\ Return(Ok(OutputPath))
    /\ UNCHANGED <<procVars, fnVars, webp, options, settings, events, steps,
                   scratch, parsed, canvas, temp_dir, frame_paths, err,
                   fallback_err, log_writes, final_cmd>>

\* lines 126-127
Finish ==
    /\ pc = "finish"
    /\ UNCHANGED steps
    /\ emit_progress(100, "done")
    /\ Return(Ok(OutputPath))
    /\ UNCHANGED <<procVars, fnVars, webp, options, settings, scratch, parsed,
                   canvas, temp_dir, frame_paths, err, fallback_err,
                   log_writes, final_cmd>>

FnIdle ==
    /\ arg = None
    /\ ret = NotCalled
    /\ index = 0
    /\ carry = ""

JobIdle ==
    /\ pc = "idle"
    /\ webp = None
    /\ options = None
    /\ settings = None
    /\ events = <<>>
    /\ steps = <<>>
    /\ scratch = None
    /\ parsed = None
    /\ canvas = None
    /\ temp_dir = None
    /\ frame_paths = <<>>
    /\ err = None
    /\ fallback_err = None
    /\ log_writes = <<>>
    /\ final_cmd = None
    /\ result = NotCalled
    /\ counter = 0
    /\ previous = None

Init ==
    /\ FnIdle
    /\ pc = "start"
    /\ webp \in WebpFiles
    /\ options \in OptionsSet
    /\ settings = None
    /\ events = <<>>
    /\ steps = <<>>
    /\ scratch = None
    /\ parsed = None
    /\ canvas = None
    /\ temp_dir = None
    /\ frame_paths = <<>>
    /\ err = None
    /\ fallback_err = None
    /\ log_writes = <<>>
    /\ final_cmd = None
    /\ result = NotCalled
    /\ counter = 0
    /\ previous = None

Next ==
    \/ Prepare
    \/ LocateFfmpeg
    \/ ProbeAnimated
    \/ DirectEncode
    \/ ResolveTools
    \/ CreateTempDir
    \/ Inspect
    \/ ExtractFrame
    \/ DecodeFrame
    \/ ComposeFrame
    \/ Assemble
    \/ ReportFailure
    \/ Finish

Spec == Init /\ [][Next]_vars

----------------------------------------------------------------------------
(* ConversionSettings::from_options on its own (specification SpecOptions): *)
(* the quality option absent, in the three documented spellings, in other   *)
(* letter cases, and with values that are none of the three.                *)

QualitySet ==
    { None, Some("high"), Some("balanced"), Some("small"),
      Some("Balanced"), Some("BALANCED"), Some("Small"), Some("SMALL"),
      Some(""), Some("medium"), Some("smaller"), Some("balance") }

OptionInputs ==
    [quality : QualitySet,
     fps : {None, Some(30)},
     background : {None},
     static_duration : {None, Some(50000), Some(70000000)}]

InitOptions ==
    /\ arg \in OptionInputs
    /\ ret = NotCalled
    /\ index = 0
    /\ carry = ""
    /\ JobIdle

CallOptions ==
    /\ pc = "idle"
    /\ ret = NotCalled
    /\ ret' = Ok(from_options(arg))
    /\ UNCHANGED <<arg, index, carry, jobVars, procVars>>

NextOptions == CallOptions

SpecOptions == InitOptions /\ [][NextOptions]_vars

\* The quality values that read "balanced" and "small" when lowercased.
BalancedSpellings == { "balanced", "Balanced", "BALANCED" }
SmallSpellings == { "small", "Small", "SMALL" }

Preset(settings_value) ==
    <<settings_value.crf, settings_value.preset>>

\* C18 as stated: "balanced" gives (18, "medium"), "small" gives
\* (24, "fast"), every other value and an absent option give (12, "slow").
\* Refuted: the option is lowercased before it is matched.
C18_QualityAsSpelled ==
    ret # NotCalled =>
        Preset(ret.v) =
            IF arg.quality = Some("balanced") THEN <<18, "medium">>
            ELSE IF arg.quality = Some("small") THEN <<24, "fast">>
            ELSE <<12, "slow">>

\* C18, amended: the quality option is matched without regard to letter
\* case; "balanced" gives (18, "medium"), "small" gives (24, "fast"), every
\* other value and an absent option give (12, "slow").
C18_QualityMapping ==
    ret # NotCalled =>
        Preset(ret.v) =
            IF arg.quality.some /\ arg.quality.v \in BalancedSpellings
            THEN <<18, "medium">>
            ELSE IF arg.quality.some /\ arg.quality.v \in SmallSpellings
            THEN <<24, "fast">>
            ELSE <<12, "slow">>

C18_Witness ==
    /\ ret # NotCalled
    /\ arg.quality = Some("SMALL")
    /\ Preset(ret.v) = <<24, "fast">>

----------------------------------------------------------------------------
(* The job run twice in one process on the same input and options          *)
(* (specification SpecRerun): when a run has returned after invoking the   *)
(* final encoder, the job is started again; COUNTER keeps its value.       *)

RerunFiles == { file \in WebpFiles : Len(file.frames) = 1 }

InitRerun == Init /\ webp \in RerunFiles

Rerun ==
    /\ pc = "returned"
    /\ final_cmd.some
    /\ ~previous.some
    /\ previous' = final_cmd
    /\ pc' = "start"
    /\ settings' = None
    /\ events' = <<>>
    /\ steps' = <<>>
    /\ scratch' = None
    /\ parsed' = None
    /\ canvas' = None
    /\ temp_dir' = None
    /\ frame_paths' = <<>>
    /\ err' = None
    /\ fallback_err' = None
    /\ log_writes' = <<>>
    /\ final_cmd' = None
    /\ result' = NotCalled
    /\ UNCHANGED <<fnVars, webp, options, counter>>

NextRerun == Next \/ Rerun

SpecRerun == InitRerun /\ [][NextRerun]_vars

\* C17: two runs of the job on the same input and options issue the same
\* final encoder invocation, every input path argument included.
\* Refuted on the fallback path: the input is a file of the scratch
\* directory, whose name carries the value of COUNTER (and the clock).
C17_SameInvocation ==
    (previous.some /\ final_cmd.some) => final_cmd.v = previous.v

----------------------------------------------------------------------------
\* Properties of the job (specification Spec)

CountOp(op) == Cardinality({ k \in 1..Len(steps) : steps[k].op = op })

FallbackOps == { "resolve_tools", "create_temp_dir", "webpmux_info",
                 "webpmux_get", "dwebp", "compose", "write_concat",
                 "final_encode" }

FallbackStarted == \E k \in 1..Len(steps) : steps[k].op \in FallbackOps

\* fallback_convert_with_webpmux has returned to line 96
FallbackReturned ==
    /\ CountOp("create_temp_dir") = 1
    /\ pc \in { "fallback_failed", "finish", "returned" }

\* C1: when the fallback pipeline has returned, by success or by failure,
\* the scratch directory it created is gone.  Refuted: only line 419, after
\* the final encoder has run, removes it; every earlier return leaves it.
C1_ScratchRemovedOnReturn ==
    (FallbackReturned /\ temp_dir.some) => ~scratch.some

InRect(xy, f, img) ==
    /\ xy[1] >= f.offset_x /\ xy[1] < f.offset_x + img.w
    /\ xy[2] >= f.offset_y /\ xy[2] < f.offset_y + img.h

SrcAt(xy, f, img) == img.px[<<xy[1] - f.offset_x, xy[2] - f.offset_y>>]

Overwrites(xy, f, img) ==
    InRect(xy, f, img) /\ (~f.blend \/ SrcAt(xy, f, img)[4] = Opaque)

\* the canvas pixel frame i is composited onto, from the snapshots alone
PixelBefore(i, xy) ==
    IF i = 1 THEN White
    ELSE IF parsed.v.frames[i - 1].dispose_background
            /\ InRect(xy, parsed.v.frames[i - 1], scratch.v.frame_png[i - 1])
         THEN Transparent
         ELSE scratch.v.composed_png[i - 1].px[xy]

\* C2: the composed frame of a frame that disposes to background is saved
\* before its rectangle is cleared: inside the rectangle it shows the
\* frame's pixels (or, where the frame is blended and transparent, what was
\* there before), and the cleared rectangle shows only in the composed
\* frame of the next frame, wherever that frame does not draw.
C2_SnapshotBeforeDispose ==
    (scratch.some /\ parsed.some) =>
        \A i \in 1..Len(scratch.v.composed_png) :
            LET f    == parsed.v.frames[i]
                img  == scratch.v.frame_png[i]
                snap == scratch.v.composed_png[i]
            IN  f.dispose_background =>
                  /\ \A xy \in DOMAIN snap.px :
                       InRect(xy, f, img) =>
                           snap.px[xy] = IF Overwrites(xy, f, img)
                                         THEN SrcAt(xy, f, img)
                                         ELSE PixelBefore(i, xy)
                  /\ i < Len(scratch.v.composed_png) =>
                       \A xy \in DOMAIN snap.px :
                           (/\ InRect(xy, f, img)
                            /\ ~Overwrites(xy, parsed.v.frames[i + 1],
                                           scratch.v.frame_png[i + 1]))
                           => scratch.v.composed_png[i + 1].px[xy] = Transparent

C2_Witness ==
    /\ scratch.some /\ parsed.some
    /\ Len(scratch.v.composed_png) >= 2
    /\ parsed.v.frames[1].dispose_background
    /\ \E xy \in DOMAIN scratch.v.composed_png[1].px :
         /\ Overwrites(xy, parsed.v.frames[1], scratch.v.frame_png[1])
         /\ scratch.v.composed_png[1].px[xy] = Red
         /\ scratch.v.composed_png[2].px[xy] = Transparent

\* C19: after a frame has been composited and saved, the canvas differs from
\* the saved snapshot exactly when the frame disposes to background, and
\* then exactly in the canvas pixels of the rectangle at the frame's own
\* offset with the decoded frame's own width and height, which are
\* (0,0,0,0); every other pixel is the snapshot's.  A rectangle that lies
\* wholly outside the canvas leaves the canvas as the snapshot.
C19_ClearRectClipped ==
    (/\ scratch.some /\ parsed.some /\ ~fallback_err.some
     /\ Len(scratch.v.composed_png) >= 1) =>
        LET i    == Len(scratch.v.composed_png)
            f    == parsed.v.frames[i]
            img  == scratch.v.frame_png[i]
            snap == scratch.v.composed_png[i]
        IN  /\ DOMAIN canvas.px = DOMAIN snap.px
            /\ \A xy \in DOMAIN canvas.px :
                 canvas.px[xy] =
                     IF f.dispose_background /\ InRect(xy, f, img)
                     THEN <<0, 0, 0, 0>>
                     ELSE snap.px[xy]

\* a disposing frame that reaches over the right edge, followed by a
\* disposing frame wholly outside the canvas
C19_Witness ==
    /\ scratch.some /\ parsed.some /\ ~fallback_err.some
    /\ Len(scratch.v.composed_png) = 2
    /\ parsed.v.frames[1].dispose_background
    /\ parsed.v.frames[1].offset_x = 2 /\ parsed.v.frames[1].offset_y = 1
    /\ parsed.v.frames[2].dispose_background
    /\ parsed.v.frames[2].offset_x = 3
    /\ scratch.v.composed_png[1].px[<<2, 1>>] = Red
    /\ scratch.v.composed_png[2].px[<<2, 1>>] = <<0, 0, 0, 0>>
    /\ canvas = scratch.v.composed_png[2]
    /\ canvas.px[<<1, 1>>] = White

\* C20: the snapshot of a frame that does not blend shows, in every canvas
\* pixel of the frame's placed rectangle, the source pixel in all four
\* channels, transparent ones included, and in every other pixel what the
\* canvas held before; the snapshot has the canvas's own pixels, the source
\* pixels that land outside it being dropped.
C20_OverwriteWithoutBlend ==
    (scratch.some /\ parsed.some) =>
        \A i \in 1..Len(scratch.v.composed_png) :
            LET f    == parsed.v.frames[i]
                img  == scratch.v.frame_png[i]
                snap == scratch.v.composed_png[i]
            IN  ~f.blend =>
                  /\ DOMAIN snap.px =
                         (0..(parsed.v.canvas_w - 1)) \X (0..(parsed.v.canvas_h - 1))
                  /\ \A xy \in DOMAIN snap.px :
                       snap.px[xy] = IF InRect(xy, f, img)
                                     THEN SrcAt(xy, f, img)
                                     ELSE PixelBefore(i, xy)

\* a frame with a transparent pixel overwrites the white canvas, then a
\* frame that reaches over the right edge overwrites one pixel
C20_Witness ==
    /\ scratch.some /\ parsed.some
    /\ Len(scratch.v.composed_png) = 2
    /\ ~parsed.v.frames[1].blend /\ ~parsed.v.frames[1].dispose_background
    /\ parsed.v.frames[1].offset_x = 0
    /\ ~parsed.v.frames[2].blend
    /\ parsed.v.frames[2].offset_x = 2 /\ parsed.v.frames[2].offset_y = 1
    /\ scratch.v.frame_png[2].w = 2
    /\ scratch.v.composed_png[1].px[<<0, 0>>] = Transparent
    /\ scratch.v.composed_png[2].px[<<0, 0>>] = Transparent
    /\ scratch.v.composed_png[2].px[<<2, 1>>] = Red
    /\ scratch.v.composed_png[2].px[<<2, 0>>] = White

IsDone(event) == event.progress = 100 /\ event.stage = "done"

DoneEvents == { i \in 1..Len(events) : IsDone(events[i]) }

\* C26: a job that has returned success has emitted (100, "done") once,
\* as its last event; a job that has not, or that has returned an error,
\* has not emitted it; and the first event of a job is (0, "starting").
C26_DoneOnlyOnSuccess ==
    /\ (pc = "returned" /\ result.ok) =>
          /\ Cardinality(DoneEvents) = 1
          /\ IsDone(events[Len(events)])
    /\ ~(pc = "returned" /\ result.ok) => DoneEvents = {}
    /\ events # <<>> =>
          (events[1].progress = 0 /\ events[1].stage = "starting")

\* a job that succeeded through the fallback pipeline
C26_Witness ==
    /\ pc = "returned" /\ result.ok
    /\ Len(events) >= 4
    /\ events[1].stage = "starting"
    /\ events[2].stage = "compositing"
    /\ events[Len(events) - 1].stage = "encoding"
    /\ IsDone(events[Len(events)])

\* C3: with exactly one frame the duration recorded for it is the static
\* duration of the settings in milliseconds, whatever the descriptor
\* says; with two or more frames each recorded duration is the
\* descriptor's.
C3_RecordedDurations ==
    parsed.some =>
        \A i \in 1..Len(frame_paths) :
            frame_paths[i].duration_ms =
                IF Len(parsed.v.frames) = 1
                THEN settings.static_duration \div 1000
                ELSE parsed.v.frames[i].duration_ms

C3_Witness ==
    /\ parsed.some
    /\ Len(parsed.v.frames) = 1
    /\ Len(frame_paths) = 1
    /\ parsed.v.frames[1].duration_ms = 40
    /\ frame_paths[1].duration_ms = 100

\* C8: the final encoder is given exactly one of three inputs: the concat
\* list if and only if no frame rate is set, a single looped image if and
\* only if a frame rate is set and there is one composed frame, a numbered
\* image sequence if and only if a frame rate is set and there are two or
\* more; the concat list file is written only for the first.
C8_InputModes ==
    /\ final_cmd.some =>
         /\ final_cmd.v.mode \in { "concat", "loop", "sequence" }
         /\ final_cmd.v.mode = "concat" <=> ~settings.fps.some
         /\ final_cmd.v.mode = "loop" <=>
                (settings.fps.some /\ Len(frame_paths) = 1)
         /\ final_cmd.v.mode = "sequence" <=>
                (settings.fps.some /\ Len(frame_paths) >= 2)
         /\ Len(frame_paths) = Len(parsed.v.frames)
         /\ CountOp("write_concat") = 1 <=> final_cmd.v.mode = "concat"
         /\ (scratch.some /\ scratch.v.concat_txt.some)
                => final_cmd.v.mode = "concat"
    /\ CountOp("write_concat") > 0 => ~settings.fps.some

C8_Witness ==
    /\ final_cmd.some
    /\ final_cmd.v.mode = "loop"
    /\ Len(frame_paths) = 1
    /\ CountOp("write_concat") = 0
    /\ pc = "returned"

EarlyErrors ==
    { "Input file does not exist", "Invalid input file name" }
        \cup { "Failed to create output directory: " \o e : e \in IoErrors }
        \cup { "Failed to locate ffmpeg: " \o e : e \in IoErrors }
        \cup IoErrors

\* C9 as stated: every job attempts the direct encoder invocation exactly
\* once.  Refuted by the jobs that return before the encoder is reached.
C9_DirectOnceInEveryJob ==
    pc = "returned" => CountOp("direct_encode") = 1

\* C9: the direct encoder invocation is attempted at most once, before any
\* other external step, and exactly once in every job that does not return
\* one of the errors of the checks before it; the fallback is started only
\* after the direct invocation has failed, at most once, and never in a
\* job whose direct invocation succeeded.
C9_DirectFirstThenFallback ==
    /\ CountOp("direct_encode") <= 1
    /\ steps # <<>> => steps[1].op = "direct_encode"
    /\ pc = "returned" =>
         \/ CountOp("direct_encode") = 1
         \/ steps = <<>> /\ ~result.ok /\ result.msg \in EarlyErrors
    /\ FallbackStarted => err.some
    /\ CountOp("resolve_tools") <= 1
    /\ CountOp("create_temp_dir") <= 1
    /\ (CountOp("direct_encode") = 1 /\ ~err.some) => ~FallbackStarted

C9_Witness ==
    /\ pc = "returned"
    /\ ~result.ok
    /\ err.some
    /\ CountOp("direct_encode") = 1
    /\ CountOp("create_temp_dir") = 1
    /\ steps[1].op = "direct_encode"

\* C11: when the direct encode has failed and the job then returns an
\* error of the fallback path (a tool that is not resolved, or a failure
\* of the fallback pipeline), a log write was attempted before the return.
\* Refuted: the `?` of lines 100-101 returns the tool's error at once.
C11_FallbackErrorsLogged ==
    (pc = "returned" /\ err.some /\ ~result.ok) => log_writes # <<>>

FrameStepOps == { "webpmux_info", "webpmux_get", "dwebp", "compose" }

LastStep == steps[Len(steps)]

\* no external step is started twice for the same frame
NoRetry ==
    \A k \in 1..Len(steps) : \A l \in 1..Len(steps) :
        steps[k] = steps[l] => k = l

\* the step that failed is the last one, no later frame was touched and
\* the final encoder was not invoked
FailedStepIsLast ==
    (fallback_err.some /\ LastStep.op \in FrameStepOps) =>
        /\ CountOp("final_encode") = 0
        /\ CountOp("write_concat") = 0
        /\ ~final_cmd.some
        /\ \A k \in 1..Len(steps) : steps[k].frame <= LastStep.frame
        /\ Len(frame_paths) < LastStep.frame \/ LastStep.op = "webpmux_info"

\* C12: on the fallback path the first failing step ends the job: once
\* the inspection, the parse, or the extraction, decoding, reading or
\* writing of frame i has failed, no further step is performed (none for a
\* frame j > i, and not the final encoder), and no external step is ever
\* started a second time for the same frame.
C12_FirstFailureEnds ==
    /\ [](NoRetry /\ FailedStepIsLast)
    /\ [][fallback_err.some =>
            (steps' = steps /\ final_cmd' = final_cmd
             /\ frame_paths' = frame_paths /\ scratch' = scratch)]_vars

C12_Witness ==
    /\ pc = "returned"
    /\ fallback_err.some
    /\ Len(webp.frames) = 2
    /\ LastStep = StepRec("dwebp", 1)
    /\ CountOp("final_encode") = 0
    /\ \A k \in 1..Len(steps) : steps[k].frame <= 1

\* the place of the final encoder invocation among the steps
EncoderAt == CHOOSE k \in 1..Len(steps) : steps[k].op = "final_encode"

\* C13: on the fallback path the event with progress 95 is emitted after
\* the last compositing checkpoint and before the final encoder
\* invocation is started.  Refuted: line 426 emits it after the encoder's
\* process has ended with success.
C13_NinetyFiveBeforeEncoder ==
    CountOp("final_encode") = 1 =>
        \E k \in 1..Len(events) :
            /\ events[k].progress = 95
            /\ events[k].after < EncoderAt
            /\ \A j \in 1..Len(events) :
                   events[j].stage = "compositing" => j < k

RoundedUp(n) == n + (n % 2)

\* C14: the working canvas is allocated with its width and its height
\* rounded up to an even number, and so is every composed raster saved
\* from it.  Refuted by a canvas of odd width: line 253 allocates it with
\* the parsed width and height, and only the scale filter is given the
\* rounded ones.
C14_CanvasAllocatedEven ==
    (canvas # None /\ parsed.some) =>
        /\ canvas.w = RoundedUp(parsed.v.canvas_w)
        /\ canvas.h = RoundedUp(parsed.v.canvas_h)
        /\ scratch.some =>
             \A i \in 1..Len(scratch.v.composed_png) :
                 /\ scratch.v.composed_png[i].w = RoundedUp(parsed.v.canvas_w)
                 /\ scratch.v.composed_png[i].h = RoundedUp(parsed.v.canvas_h)

OccursAt(s, p, i) ==
    i + Len(p) - 1 <= Len(s) /\ SubSeq(s, i, i + Len(p) - 1) = p

\* a occurs in s, and b occurs after the end of that occurrence
InOrder(s, a, b) ==
    \E i \in 1..Len(s) :
        /\ OccursAt(s, a, i)
        /\ \E j \in (i + Len(a))..(Len(s) + 1) : OccursAt(s, b, j)

\* C10: when the direct invocation and the fallback pipeline have both
\* failed, the job returns an error whose message contains the direct
\* error's text and the fallback error's text, in that order, whether the
\* error log was written or not.
C10_BothErrorsReturned ==
    (pc = "returned" /\ err.some /\ fallback_err.some) =>
        /\ ~result.ok
        /\ InOrder(result.msg, err.v, fallback_err.v)
        /\ log_writes # <<>>
        /\ log_writes[Len(log_writes)].error = err.v \o "\n" \o fallback_err.v

C10_Witness ==
    /\ pc = "returned"
    /\ err.some
    /\ fallback_err.some
    /\ ~log_writes[Len(log_writes)].written
    /\ InOrder(result.msg, err.v, fallback_err.v)

----------------------------------------------------------------------------
(* parse_webpmux_info applied to reports (specification SpecParse): a     *)
(* report is a head, then up to MaxRows lines drawn from RowLines, or a    *)
(* first line followed by numbered filler lines.                           *)

CanvasLn == "Canvas size: 3 x 1"
ZeroCanvasLn == "Canvas size: 0 x 1"
HeaderLn == "No.: width height alpha x_offset y_offset duration dispose blend"
RowA     == "1: 2 1 no 0 0 70 none no"
RowB     == "3 : 1 2 yes 1 0 40 background yes"
RowShort == "4: 1 1 no 0 0 70"
RowZero  == "5: 0 1 no 0 0 70 none no"
RowBadNumber == "7: 1 1 no a 0 70 none no"
BlockLn  == "Frame 1"

MaxRows == 3

MaxFill == 26

RowLines ==
    { RowA, RowB, RowShort, RowZero, RowBadNumber, CanvasLn, HeaderLn, BlockLn }

Heads == { <<>>, <<HeaderLn>>, <<CanvasLn, HeaderLn>>,
           <<ZeroCanvasLn, HeaderLn>> }

Filler(k) == [j \in 1..k |-> "line " \o to_string(j)]

LongReports ==
    { <<first>> \o Filler(k) :
          first \in { CanvasLn, "Features present: animation" },
          k \in (PreviewLines - 1)..MaxFill }

ParseInputs ==
    { head \o rows : head \in Heads, rows \in SeqsUpTo(RowLines, MaxRows) }
        \cup LongReports

InitParse ==
    /\ arg \in ParseInputs
    /\ ret = NotCalled
    /\ index = 0
    /\ carry = ""
    /\ JobIdle

CallParse ==
    /\ pc = "idle"
    /\ ret = NotCalled
    /\ ret' = parse_webpmux_info(arg)
    /\ UNCHANGED <<arg, index, carry, jobVars, procVars>>

NextParse == CallParse

SpecParse == InitParse /\ [][NextParse]_vars

\* What each line of RowLines is, read off the text of the line: the frame
\* of a row of the table, or no frame.
RowFrame ==
    RowA :> Some([offset_x |-> 0, offset_y |-> 0, duration_ms |-> 70,
                  dispose_background |-> FALSE, blend |-> FALSE])
    @@ RowB :> Some([offset_x |-> 1, offset_y |-> 0, duration_ms |-> 40,
                     dispose_background |-> TRUE, blend |-> TRUE])
    @@ RowShort :> None @@ RowZero :> None @@ RowBadNumber :> None
    @@ CanvasLn :> None @@ HeaderLn :> None @@ BlockLn :> None

\* rows with at least 8 columns after the row number, and a non-zero width
\* and height
EightColumnsNonZero == { RowA, RowB, RowBadNumber }

IsFrameRow(line) == line \in DOMAIN RowFrame /\ RowFrame[line].some

IsEightColumnsNonZero(line) == line \in EightColumnsNonZero

HeaderAt(text) ==
    IF \E i \in 1..Len(text) : text[i] = HeaderLn
    THEN CHOOSE i \in 1..Len(text) :
             text[i] = HeaderLn /\ \A j \in 1..(i - 1) : text[j] # HeaderLn
    ELSE Len(text)

RowsAfterHeader(text) == SubSeq(text, HeaderAt(text) + 1, Len(text))

ExpectedRows(text) ==
    LET rows == SelectSeq(RowsAfterHeader(text), IsFrameRow)
    IN  [k \in 1..Len(rows) |-> RowFrame[rows[k]].v]

HasCanvas(text) ==
    \E i \in 1..Len(text) : text[i] \in { CanvasLn, ZeroCanvasLn }

HasBlock(text) == \E i \in 1..Len(text) : text[i] = BlockLn

\* C4 as stated: the frames of the table are the rows after the header
\* with at least 8 columns and a non-zero width and height.  Refuted by a
\* row whose offset is not a number: it has both, and is dropped.
C4_EightColumnsNonZeroReturned ==
    (ret # NotCalled /\ ret.ok /\ ExpectedRows(arg) # <<>>) =>
        Len(ret.v.frames) =
            Len(SelectSeq(RowsAfterHeader(arg), IsEightColumnsNonZero))

\* C4: when the table yields frames, the frames returned are exactly the
\* rows after the table header that have at least 8 columns after the row
\* number, a width, height, offsets and duration that are unsigned
\* numbers, and a non-zero width and height, in row order; every other row
\* is skipped and changes nothing of the frames of the others.
C4_TableRows ==
    (ret # NotCalled /\ ExpectedRows(arg) # <<>>) =>
        /\ ret.ok <=> HasCanvas(arg)
        /\ ret.ok => ret.v.frames = ExpectedRows(arg)

C4_Witness ==
    /\ arg = <<CanvasLn, HeaderLn, RowA, RowBadNumber, RowB>>
    /\ ret # NotCalled
    /\ ret.ok
    /\ ret.v.frames = <<RowFrame[RowA].v, RowFrame[RowB].v>>

\* C6: the parser returns an error when no line yields a canvas size, and
\* when a canvas size was found but no frame was recovered from the table
\* or from frame headers; the second error's message contains the first
\* 25 lines of the input.
C6_ParseErrors ==
    ret # NotCalled =>
        LET frameless == ExpectedRows(arg) = <<>> /\ ~HasBlock(arg)
        IN  /\ ~HasCanvas(arg) => ~ret.ok
            /\ (HasCanvas(arg) /\ frameless) =>
                 /\ ~ret.ok
                 /\ contains(ret.msg,
                        join(SubSeq(arg, 1, Min(25, Len(arg))), "\n"))
            /\ ret.ok => (HasCanvas(arg) /\ ~frameless)

\* C15: every successful result of parse_webpmux_info has a canvas width
\* and a canvas height greater than 0.  Refuted: a canvas line with a zero
\* is accepted as it is.
C15_CanvasPositive ==
    (ret # NotCalled /\ ret.ok) => (ret.v.canvas_w > 0 /\ ret.v.canvas_h > 0)

C6_Witness ==
    /\ Len(arg) > 25
    /\ arg[1] = CanvasLn
    /\ ret # NotCalled
    /\ ~ret.ok
    /\ contains(ret.msg, arg[25])
    /\ ~contains(ret.msg, arg[26])

----------------------------------------------------------------------------
(* parse_webpmux_info applied to reports without a table (specification   *)
(* SpecBlocks): up to MaxBlockLines lines drawn from BlockLines.           *)

OffsetLn   == "  offset: 1, 0"
DurationLn == "  duration: 70 ms"
DisposeLn  == "  dispose: background"
BlendLn    == "  blend: no"

BlockHeaders == { BlockLn, "frame #2" }

BlockLines ==
    BlockHeaders \cup { CanvasLn, OffsetLn, DurationLn, DisposeLn, BlendLn }

MaxBlockLines == 4

BlockInputs == SeqsUpTo(BlockLines, MaxBlockLines)

InitBlocks ==
    /\ arg \in BlockInputs
    /\ ret = NotCalled
    /\ index = 0
    /\ carry = ""
    /\ JobIdle

CallParseBlocks ==
    /\ pc = "idle"
    /\ ret = NotCalled
    /\ ret' = parse_webpmux_info(arg)
    /\ UNCHANGED <<arg, index, carry, jobVars, procVars>>

NextBlocks == CallParseBlocks

SpecBlocks == InitBlocks /\ [][NextBlocks]_vars

HeaderIdx(text) == { i \in 1..Len(text) : text[i] \in BlockHeaders }

\* the line of the k-th frame header, and the line that ends its block
HeaderLine(text, k) ==
    CHOOSE i \in HeaderIdx(text) :
        Cardinality({ j \in HeaderIdx(text) : j <= i }) = k

BlockEnd(text, k) ==
    IF k < Cardinality(HeaderIdx(text)) THEN HeaderLine(text, k + 1)
    ELSE Len(text) + 1

HasLine(text, k, line) ==
    \E i \in (HeaderLine(text, k) + 1)..(BlockEnd(text, k) - 1) : text[i] = line

\* C5: without a table, the frames returned are as many as the frame
\* header lines, in their order, and a field of a frame with no line for
\* it before the next frame header has its default: offset (0, 0),
\* duration 33, no disposal to background, blend on.
C5_HeaderBlocks ==
    ret # NotCalled =>
        /\ ret.ok <=> (HasCanvas(arg) /\ HeaderIdx(arg) # {})
        /\ ret.ok =>
             /\ Len(ret.v.frames) = Cardinality(HeaderIdx(arg))
             /\ \A k \in 1..Len(ret.v.frames) :
                  LET f == ret.v.frames[k]
                  IN  /\ <<f.offset_x, f.offset_y>> =
                           IF HasLine(arg, k, OffsetLn) THEN <<1, 0>> ELSE <<0, 0>>
                      /\ f.duration_ms =
                           IF HasLine(arg, k, DurationLn) THEN 70 ELSE 33
                      /\ f.dispose_background = HasLine(arg, k, DisposeLn)
                      /\ f.blend = ~HasLine(arg, k, BlendLn)

C5_Witness ==
    /\ arg = <<CanvasLn, BlockLn, DurationLn, "frame #2">>
    /\ ret # NotCalled
    /\ ret.ok
    /\ Len(ret.v.frames) = 2
    /\ ret.v.frames[1].duration_ms = 70
    /\ ret.v.frames[2] = [offset_x |-> 0, offset_y |-> 0, duration_ms |-> 33,
                          dispose_background |-> FALSE, blend |-> TRUE]

----------------------------------------------------------------------------
(* parse_webpmux_info applied to reports that mix the two layouts          *)
(* (specification SpecModes): up to MaxModeLines lines drawn from          *)
(* ModeLines, which has a table header, a valid and a rejected row, a      *)
(* frame header and field lines.                                           *)

ModeLines ==
    { CanvasLn, HeaderLn, RowA, RowShort, BlockLn, OffsetLn, DurationLn }

MaxModeLines == 4

ModeInputs == SeqsUpTo(ModeLines, MaxModeLines)

InitModes ==
    /\ arg \in ModeInputs
    /\ ret = NotCalled
    /\ index = 0
    /\ carry = ""
    /\ JobIdle

CallParseModes ==
    /\ pc = "idle"
    /\ ret = NotCalled
    /\ ret' = parse_webpmux_info(arg)
    /\ UNCHANGED <<arg, index, carry, jobVars, procVars>>

NextModes == CallParseModes

SpecModes == InitModes /\ [][NextModes]_vars

\* C23: when the table gives at least one frame, the frames returned are
\* the table's rows and nothing else, whatever frame headers and field
\* lines the report holds; when it gives none, with or without a table
\* header, the frames returned are those of the frame headers of the whole
\* report, each with the fields of the lines of its block.
C23_HeaderBlocksOnlyWithoutRows ==
    ret # NotCalled =>
        /\ ret.ok <=>
              (HasCanvas(arg) /\ (ExpectedRows(arg) # <<>> \/ HeaderIdx(arg) # {}))
        /\ (ret.ok /\ ExpectedRows(arg) # <<>>) =>
              ret.v.frames = ExpectedRows(arg)
        /\ (ret.ok /\ ExpectedRows(arg) = <<>>) =>
              /\ Len(ret.v.frames) = Cardinality(HeaderIdx(arg))
              /\ \A k \in 1..Len(ret.v.frames) :
                   ret.v.frames[k] =
                       [offset_x |-> IF HasLine(arg, k, OffsetLn) THEN 1 ELSE 0,
                        offset_y |-> 0,
                        duration_ms |->
                            IF HasLine(arg, k, DurationLn) THEN 70 ELSE 33,
                        dispose_background |-> FALSE,
                        blend |-> TRUE]

\* a frame header before a table with one valid row
C23_Witness ==
    /\ ret # NotCalled
    /\ arg = <<CanvasLn, BlockLn, HeaderLn, RowA>>
    /\ ret.ok
    /\ Len(ret.v.frames) = 1
    /\ ret.v.frames[1].duration_ms = 70
    /\ ~ret.v.frames[1].blend

----------------------------------------------------------------------------
(* parse_webpmux_info applied to reports whose field lines name a duration *)
(* (specification SpecFields): up to MaxFieldLines lines drawn from        *)
(* FieldLines.                                                             *)

DurationUpper    == "Duration 5 of 9"
DurationNoNumber == "duration: none"
DisposeDuration  == "dispose 1 duration 7"
OffsetDuration   == "  offset: 1, 0 duration: 70"

FieldLines ==
    { CanvasLn, BlockLn, DurationLn, DurationUpper, DurationNoNumber,
      DisposeDuration, OffsetDuration }

MaxFieldLines == 4

FieldInputs == SeqsUpTo(FieldLines, MaxFieldLines)

InitFields ==
    /\ arg \in FieldInputs
    /\ ret = NotCalled
    /\ index = 0
    /\ carry = ""
    /\ JobIdle

CallParseFields ==
    /\ pc = "idle"
    /\ ret = NotCalled
    /\ ret' = parse_webpmux_info(arg)
    /\ UNCHANGED <<arg, index, carry, jobVars, procVars>>

NextFields == CallParseFields

SpecFields == InitFields /\ [][NextFields]_vars

\* The first integer of each line of FieldLines that contains "duration"
\* in any letter case and an integer, read off the text of the line.
DurationStated ==
    DurationLn :> Some(70)
    @@ DurationUpper :> Some(5)
    @@ DurationNoNumber :> None
    @@ DisposeDuration :> Some(1)
    @@ OffsetDuration :> Some(1)
    @@ CanvasLn :> None
    @@ BlockLn :> None

\* the lines of the k-th block that state a duration
DurationLinesOf(text, k) ==
    { i \in (HeaderLine(text, k) + 1)..(BlockEnd(text, k) - 1) :
          DurationStated[text[i]].some }

\* C24: in header-block mode the duration of a frame is the first integer
\* of the last line of its block that contains "duration" and an integer,
\* whatever else that line contains, and the default when the block has no
\* such line.  Refuted: a line that also contains "offset" is read as an
\* offset line only.
C24_DurationLineSetsDuration ==
    (ret # NotCalled /\ ret.ok) =>
        \A k \in 1..Len(ret.v.frames) :
            ret.v.frames[k].duration_ms =
                IF DurationLinesOf(arg, k) = {} THEN 33
                ELSE DurationStated[arg[
                         CHOOSE i \in DurationLinesOf(arg, k) :
                             \A j \in DurationLinesOf(arg, k) : j <= i]].v

----------------------------------------------------------------------------
(* parse_webpmux_info applied to reports with several canvas lines         *)
(* (specification SpecCanvas): a frame table of one row, with at most one  *)
(* line of CanvasLines before the table header, one between the header and *)
(* the row, and one after the row.                                         *)

CanvasPlain   == "Canvas size: 3 x 2"
CanvasTight   == "canvas 5x4"
CanvasTwoX    == "Canvas 7 x px 6"
CanvasThreeNumbers == "Canvas 2 x 4 x 6"
CanvasRuns    == "Canvas 1 2 x 3 4"
CanvasNoNumber == "Canvas x"
CanvasNoHeight == "Canvas 9 x"

CanvasLines ==
    { CanvasPlain, CanvasTight, CanvasTwoX, CanvasThreeNumbers, CanvasRuns,
      CanvasNoNumber, CanvasNoHeight }

CanvasSlot == { <<>> } \cup { <<line>> : line \in CanvasLines }

CanvasInputs ==
    { before \o <<HeaderLn>> \o between \o <<RowA>> \o after :
          before \in CanvasSlot, between \in CanvasSlot, after \in CanvasSlot }

InitCanvas ==
    /\ arg \in CanvasInputs
    /\ ret = NotCalled
    /\ index = 0
    /\ carry = ""
    /\ JobIdle

CallParseCanvas ==
    /\ pc = "idle"
    /\ ret = NotCalled
    /\ ret' = parse_webpmux_info(arg)
    /\ UNCHANGED <<arg, index, carry, jobVars, procVars>>

NextCanvas == CallParseCanvas

SpecCanvas == InitCanvas /\ [][NextCanvas]_vars

IsCanvasLine(line) == line \in CanvasLines

\* the lines of the report that contain "canvas" and an 'x', in order
CanvasLinesOf(report) == SelectSeq(report, IsCanvasLine)

\* What each line of CanvasLines says, read off its text: the first integer
\* left of the first 'x' and the first integer anywhere right of it.
StatedSize ==
    CanvasPlain :> Some(<<3, 2>>)
    @@ CanvasTight :> Some(<<5, 4>>)
    @@ CanvasTwoX :> Some(<<7, 6>>)
    @@ CanvasThreeNumbers :> Some(<<2, 4>>)
    @@ CanvasRuns :> Some(<<1, 3>>)
    @@ CanvasNoNumber :> None
    @@ CanvasNoHeight :> None

\* C21: a report whose one canvas line has an integer on both sides of its
\* first 'x' yields a canvas size, the first integer left of that 'x' and
\* the first integer anywhere right of it.  Refuted: the text right of a
\* second 'x' is not read.
C21_FirstIntegersAroundX ==
    (ret # NotCalled /\ Len(CanvasLinesOf(arg)) = 1) =>
        LET stated == StatedSize[CanvasLinesOf(arg)[1]]
        IN  IF stated.some
            THEN ret.ok /\ <<ret.v.canvas_w, ret.v.canvas_h>> = stated.v
            ELSE ~ret.ok

\* the canvas lines on which the integers of the two sides are not parted
\* from the first 'x' by a second 'x'
IsPlainCanvasLine(line) == line \in CanvasLines \ { CanvasTwoX }

IsSizedLine(line) == StatedSize[line].some

----------------------------------------------------------------------------
(* The checkpoints of the compositing loop (specification SpecProgress):   *)
(* arg is the number of frames, index the number of frames composited and  *)
(* ret the checkpoints emitted so far, one at the end of each turn of the  *)
(* loop of lines 256-340.                                                  *)

MaxTotal == 40

InitProgress ==
    /\ arg \in 1..MaxTotal
    /\ ret = <<>>
    /\ index = 0
    /\ carry = ""
    /\ JobIdle

CompositeNext ==
    /\ pc = "idle"
    /\ index < arg
    /\ index' = index + 1
    /\ ret' = Append(ret, compositing_progress(index + 1, arg))
    /\ UNCHANGED <<arg, carry, jobVars, procVars>>

NextProgress == CompositeNext

SpecProgress == InitProgress /\ [][NextProgress]_vars

\* v is 80 * i / total rounded to the nearest integer, a half upwards
IsRounded(v, i, total) ==
    /\ 2 * total * v <= 160 * i + total
    /\ 160 * i + total < 2 * total * (v + 1)

\* C25: after i of N frames, i checkpoints have been emitted; the i-th is
\* 80 * i / N rounded to the nearest integer, lies in 0..80 and is not
\* below the one before it, and the N-th is 80.
C25_CompositingCheckpoints ==
    /\ Len(ret) = index
    /\ \A i \in 1..Len(ret) :
         /\ IsRounded(ret[i], i, arg)
         /\ ret[i] >= 0 /\ ret[i] <= 80
         /\ i > 1 => ret[i - 1] <= ret[i]
    /\ index = arg => ret[arg] = 80

\* 32 frames: the first checkpoint is 2.5 rounded, the last is 80
C25_Witness ==
    /\ arg = 32
    /\ index = 32
    /\ ret[1] = 3
    /\ ret[3] = 8
    /\ ret[32] = 80

----------------------------------------------------------------------------
(* build_concat_list applied to recorded frames (specification            *)
(* SpecConcat): up to MaxConcatFrames frames with durations from           *)
(* DurationSet, in a directory of ConcatDirs.                              *)

MaxConcatFrames == 3

DurationSet == { 0, 100, 150, 200 }

\* a directory, and its name as the list must spell it
ConcatDirs == { [dir |-> "/tmp/w", spelled |-> "/tmp/w"],
                [dir |-> "/tmp/it's", spelled |-> "/tmp/it'\\''s"] }

ConcatInputs ==
    { [i \in 1..Len(ds) |->
          [path |-> frame_file(d.dir, "composed", i, ".png"),
           duration_ms |-> ds[i]]] :
      d \in ConcatDirs, ds \in SeqsUpTo(DurationSet, MaxConcatFrames) \ {<<>>} }

InitConcat ==
    /\ arg \in ConcatInputs
    /\ ret = NotCalled
    /\ index = 0
    /\ carry = ""
    /\ JobIdle

CallConcat ==
    /\ pc = "idle"
    /\ ret = NotCalled
    /\ ret' = Ok(build_concat_list(arg))
    /\ UNCHANGED <<arg, index, carry, jobVars, procVars>>

NextConcat == CallConcat

SpecConcat == InitConcat /\ [][NextConcat]_vars

SecondsText == 100 :> "0.100000" @@ 150 :> "0.150000" @@ 200 :> "0.200000"

FrameNames == <<"0001", "0002", "0003", "0004", "0005">>

SpelledDir(paths) ==
    (CHOOSE d \in ConcatDirs : starts_with(paths[1].path, d.dir \o "/")).spelled

FileLine(paths, i) ==
    "file '" \o SpelledDir(paths) \o "/composed_" \o FrameNames[i] \o ".png'"

\* the lines of a text: what lies between its line breaks
LinesOf(text) ==
    LET breaks == { i \in 1..Len(text) : At(text, i) = "\n" }
        count  == Cardinality(breaks)
        break(k) == IF k = 0 THEN 0
                    ELSE IF k = count + 1 THEN Len(text) + 1
                    ELSE CHOOSE i \in breaks :
                             Cardinality({ j \in breaks : j <= i }) = k
    IN  [k \in 1..(count + 1) |->
            SubSeq(text, break(k - 1) + 1, break(k) - 1)]

\* the line of the list that names frame i
FileLineAt(paths, i) ==
    i + Cardinality({ j \in 1..(i - 1) : paths[j].duration_ms > 0 })

\* C7: for N frames the list is, for each frame in order, a file line
\* naming it, followed by a duration line with the duration in seconds to
\* six decimals if and only if the duration is not zero, and then one more
\* file line naming frame N: N, plus the number of non-zero durations,
\* plus one lines.
C7_ConcatList ==
    ret # NotCalled =>
        LET lines   == LinesOf(ret.v)
            n       == Len(arg)
            nonzero == Cardinality({ j \in 1..n : arg[j].duration_ms > 0 })
        IN  /\ Len(lines) = n + nonzero + 1
            /\ \A i \in 1..n :
                 /\ lines[FileLineAt(arg, i)] = FileLine(arg, i)
                 /\ arg[i].duration_ms > 0 =>
                      lines[FileLineAt(arg, i) + 1] =
                          "duration " \o SecondsText[arg[i].duration_ms]
            /\ lines[n + nonzero + 1] = FileLine(arg, n)

C7_Witness ==
    /\ Len(arg) = 3
    /\ [i \in 1..Len(arg) |-> arg[i].duration_ms] = <<100, 150, 200>>
    /\ ret # NotCalled
    /\ LinesOf(ret.v) =
         << "file '/tmp/w/composed_0001.png'", "duration 0.100000",
            "file '/tmp/w/composed_0002.png'", "duration 0.150000",
            "file '/tmp/w/composed_0003.png'", "duration 0.200000",
            "file '/tmp/w/composed_0003.png'" >>

----------------------------------------------------------------------------
(* ensure_unique_path (specification SpecUnique): a path and the set of    *)
(* paths that exist; the loop is followed up to MaxIndex candidates.       *)

\* the last place of character ch in s, 0 if there is none
LastIndexOf(s, ch) ==
    LET at == { i \in 1..Len(s) : At(s, i) = ch }
    IN  IF at = {} THEN 0 ELSE CHOOSE i \in at : \A j \in at : j <= i

\* Path::file_name and Path::parent of a path with '/' separators
file_name(path) == SubSeq(path, LastIndexOf(path, "/") + 1, Len(path))

parent(path) ==
    IF LastIndexOf(path, "/") = 0 THEN ""
    ELSE SubSeq(path, 1, LastIndexOf(path, "/") - 1)

\* Path::file_stem and Path::extension: the name is cut at its last dot,
\* unless that dot is its first character or it has none
file_stem(path) ==
    LET name == file_name(path)
        dot  == LastIndexOf(name, ".")
    IN  IF dot <= 1 THEN name ELSE SubSeq(name, 1, dot - 1)

extension(path) ==
    LET name == file_name(path)
        dot  == LastIndexOf(name, ".")
    IN  IF dot <= 1 THEN "" ELSE SubSeq(name, dot + 1, Len(name))

\* PathBuf::join of a file name
path_join(dir, name) == IF dir = "" THEN name ELSE dir \o "/" \o name

\* PathBuf::set_extension: the path is cut after its file stem, then a dot
\* and the extension are added
set_extension(path, ext) ==
    path_join(parent(path), file_stem(path))
        \o (IF ext = "" THEN "" ELSE "." \o ext)

\* lines 1078-1083: the candidate for an index
candidate(path, n) ==
    LET named == path_join(parent(path), file_stem(path) \o "-" \o to_string(n))
    IN  IF extension(path) # "" THEN set_extension(named, extension(path))
        ELSE named

MaxIndex == 3

UniquePaths == { "out/a.mp4", "out/a.b.mp4", "out/a" }

ExistingPool ==
    { "out/a.mp4", "out/a-1.mp4", "out/a-2.mp4", "out/a.b.mp4",
      "out/a.b-1.mp4", "out/a", "out/a-1" }

InitUnique ==
    /\ arg \in [path : UniquePaths, existing : SUBSET ExistingPool]
    /\ ret = NotCalled
    /\ index = 0
    /\ carry = ""
    /\ JobIdle

\* lines 1064-1077: the path itself if it does not exist, else the loop
\* is entered with index 1
CallUnique ==
    /\ pc = "idle"
    /\ ret = NotCalled
    /\ index = 0
    /\ IF arg.path \notin arg.existing
       THEN ret' = Ok(arg.path) /\ UNCHANGED index
       ELSE index' = 1 /\ UNCHANGED ret
    /\ UNCHANGED <<arg, carry, jobVars, procVars>>

\* lines 1078-1088: one turn of the loop
TryCandidate ==
    /\ pc = "idle"
    /\ ret = NotCalled
    /\ index >= 1
    /\ IF candidate(arg.path, index) \notin arg.existing
       THEN ret' = Ok(candidate(arg.path, index)) /\ UNCHANGED index
       ELSE /\ index < MaxIndex
            /\ index' = index + 1
            /\ UNCHANGED ret
    /\ UNCHANGED <<arg, carry, jobVars, procVars>>

NextUnique == CallUnique \/ TryCandidate

SpecUnique == InitUnique /\ [][NextUnique]_vars

\* a path of UniquePaths with -n put between its stem and its extension
Numbered ==
    [ p \in UniquePaths |->
        [ n \in 1..(MaxIndex + 1) |->
            CASE p = "out/a.mp4"   -> "out/a-" \o to_string(n) \o ".mp4"
              [] p = "out/a.b.mp4" -> "out/a.b-" \o to_string(n) \o ".mp4"
              [] p = "out/a"       -> "out/a-" \o to_string(n) ] ]

\* C16: ensure_unique_path returns the given path when it is unused, and
\* otherwise the path with -N between the file stem and the extension for
\* the smallest N >= 1 whose path is unused, also for a stem with a dot;
\* the returned path does not exist.  Refuted for a stem with a dot:
\* set_extension cuts the candidate at the stem's first part.
C16_SmallestUnusedSuffix ==
    ret # NotCalled =>
        /\ ret.v \notin arg.existing
        /\ IF arg.path \notin arg.existing THEN ret.v = arg.path
           ELSE \E n \in 1..MaxIndex :
                    /\ ret.v = Numbered[arg.path][n]
                    /\ \A m \in 1..(n - 1) :
                           Numbered[arg.path][m] \in arg.existing

----------------------------------------------------------------------------
(* is_animated_webp (specification SpecAnimated): arg is the content of    *)
(* the file, a byte a character; index is the number of bytes read so far. *)
(* Each read returns as many bytes as the file system chooses, at least    *)
(* one while bytes are left; the files of the model are shorter than the   *)
(* 8192 bytes of buf.                                                      *)

Markers == { "ANIM", "ANMF" }

\* window.windows(4).any(|w| w == b"ANIM" || w == b"ANMF")
any_marker(window) ==
    \E i \in 1..(Len(window) - 3) : SubSeq(window, i, i + 3) \in Markers

\* a variant that carries two bytes over
carry_two(window) ==
    SubSeq(window, Len(window) - Min(2, Len(window)) + 1, Len(window))

\* window[window.len().saturating_sub(3)..]
carry_of(window) ==
    SubSeq(window, Len(window) - Min(3, Len(window)) + 1, Len(window))

AnimatedFiles ==
    { "ANIM", "ANMF", "xxANIM", "ANMFxx", "AANIM", "ANANMF", "ANIANIM",
      "xANMFANIM" }

StillFiles ==
    { "", "ANI", "ANIxM", "ANMxF", "AMNF", "ANIANM", "MINA", "ANFMANI",
      "NIMANMA" }

InitAnimated ==
    /\ arg \in AnimatedFiles \cup StillFiles
    /\ ret = NotCalled
    /\ index = 0
    /\ carry = ""
    /\ JobIdle

\* lines 205-217: one turn of the loop with a read of at least one byte
ReadSome ==
    /\ pc = "idle"
    /\ ret = NotCalled
    /\ \E read \in 1..(Len(arg) - index) :
         LET window == carry \o SubSeq(arg, index + 1, index + read)
         IN  /\ index' = index + read
             /\ IF any_marker(window)
                THEN ret' = Ok(TRUE) /\ UNCHANGED carry
                ELSE carry' = carry_of(window) /\ UNCHANGED ret
    /\ UNCHANGED <<arg, jobVars, procVars>>

\* lines 205-208 and 220: the read at the end of the file returns 0
ReadEnd ==
    /\ pc = "idle"
    /\ ret = NotCalled
    /\ index = Len(arg)
    /\ ret' = Ok(FALSE)
    /\ UNCHANGED <<arg, index, carry, jobVars, procVars>>

\* lines 200 and 205: File::open or a read fails
ReadFails ==
    /\ pc = "idle"
    /\ ret = NotCalled
    /\ \E e \in IoErrors : ret' = Err(e)
    /\ UNCHANGED <<arg, index, carry, jobVars, procVars>>

NextAnimated == ReadSome \/ ReadEnd \/ ReadFails

SpecAnimated == InitAnimated /\ [][NextAnimated]_vars

\* C27: when is_animated_webp returns a value, it is true exactly when the
\* file holds ANIM or ANMF, whatever the sizes of the reads were.
C27_MarkerFoundAcrossReads ==
    (ret # NotCalled /\ ret.ok) => (ret.v <=> arg \in AnimatedFiles)

\* ANMF reached over a read that ended after "ANAN" and a read of two bytes
C27_Witness ==
    /\ arg = "ANANMF"
    /\ ret # NotCalled /\ ret.ok /\ ret.v
    /\ carry = "NAN"
    /\ index = 6

----------------------------------------------------------------------------
(* create_temp_dir called by jobs on several worker threads (specification *)
(* SpecTemp): arg holds each worker's locals and the directory names it    *)
(* was returned, ret the frame files on disk, each with the job that       *)
(* wrote it.  A worker runs up to MaxCalls jobs, one after the other; the  *)
(* steps of different workers interleave.                                  *)

Workers == { "w1", "w2" }

MaxCalls == 2

ClockReadings == { 7, 8 }

InitTemp ==
    /\ arg = [w \in Workers |->
                 [at |-> "idle", stamp |-> 0, count |-> 0, names |-> <<>>]]
    /\ ret = {}
    /\ index = 0
    /\ carry = ""
    /\ JobIdle

\* the scratch directory of the job a worker is running
OwnDir(w) == arg[w].names[Len(arg[w].names)]

\* the job a worker is running: the worker and the number of the job
OwnJob(w) == <<w, Len(arg[w].names)>>

\* line 740: SystemTime::now()
ReadClock(w) ==
    /\ arg[w].at = "idle"
    /\ Len(arg[w].names) < MaxCalls
    /\ \E stamp \in ClockReadings :
         arg' = [arg EXCEPT ![w].at = "stamped", ![w].stamp = stamp]
    /\ UNCHANGED <<ret, index, carry, jobVars, procVars>>

\* line 741: COUNTER.fetch_add(1, Ordering::Relaxed), one atomic step
FetchAdd(w) ==
    /\ arg[w].at = "stamped"
    /\ arg' = [arg EXCEPT ![w].at = "counted", ![w].count = counter]
    /\ counter' = counter + 1
    /\ UNCHANGED <<ret, index, carry, jobVars, previous>>

\* lines 742-744: the directory is created (create_dir_all also succeeds
\* on a directory that exists) and its path returned
CreateDirAll(w) ==
    /\ arg[w].at = "counted"
    /\ arg' = [arg EXCEPT
                 ![w].at = "created",
                 ![w].names = Append(@, temp_dir_name(arg[w].stamp,
                                                      arg[w].count))]
    /\ UNCHANGED <<ret, index, carry, jobVars, procVars>>

\* lines 256-340: the job writes its frames into its directory
WriteFrames(w) ==
    /\ arg[w].at = "created"
    /\ arg' = [arg EXCEPT ![w].at = "composited"]
    /\ ret' = ret \cup { [dir |-> OwnDir(w), job |-> OwnJob(w)] }
    /\ UNCHANGED <<index, carry, jobVars, procVars>>

\* line 419: remove_dir_all(&temp_dir)
RemoveDirAll(w) ==
    /\ arg[w].at = "composited"
    /\ arg' = [arg EXCEPT ![w].at = "idle"]
    /\ ret' = { file \in ret : file.dir # OwnDir(w) }
    /\ UNCHANGED <<index, carry, jobVars, procVars>>

\* a step of the pipeline fails: the job returns and leaves its directory
LeaveDir(w) ==
    /\ arg[w].at \in { "created", "composited" }
    /\ arg' = [arg EXCEPT ![w].at = "idle"]
    /\ UNCHANGED <<ret, index, carry, jobVars, procVars>>

NextTemp ==
    \E w \in Workers :
        \/ ReadClock(w)
        \/ FetchAdd(w)
        \/ CreateDirAll(w)
        \/ WriteFrames(w)
        \/ RemoveDirAll(w)
        \/ LeaveDir(w)

SpecTemp == InitTemp /\ [][NextTemp]_vars

\* the calls of create_temp_dir that have returned
ReturnedCalls ==
    { call \in Workers \X (1..MaxCalls) : call[2] <= Len(arg[call[1]].names) }

NameOf(call) == arg[call[1]].names[call[2]]

\* C28: two calls of create_temp_dir never return the same name, on one
\* worker or on two, in one millisecond or in two; no directory holds the
\* frames of two jobs, and the frames a job has written are there until
\* the job itself removes its directory.
C28_DistinctScratchDirs ==
    /\ \A c1 \in ReturnedCalls : \A c2 \in ReturnedCalls :
         c1 # c2 => NameOf(c1) # NameOf(c2)
    /\ \A f1 \in ret : \A f2 \in ret : f1.dir = f2.dir => f1.job = f2.job
    /\ \A w \in Workers :
         arg[w].at = "composited" =>
             [dir |-> OwnDir(w), job |-> OwnJob(w)] \in ret

\* two jobs that read the clock in the same millisecond: one has removed
\* its directory, the frames of the other are still there
C28_Witness ==
    /\ arg["w1"].at = "idle" /\ Len(arg["w1"].names) = 1
    /\ arg["w2"].at = "composited" /\ Len(arg["w2"].names) = 1
    /\ arg["w1"].stamp = arg["w2"].stamp
    /\ arg["w1"].count = 1 /\ arg["w2"].count = 0
    /\ ret = { [dir |-> "/tmp/webpconv-7-0", job |-> <<"w2", 1>>] }

====
